---- MODULE Spec2Model ----
(***************************************************************************)
(* Entropy and information gain over a labelled categorical data set       *)
(* (ai/entropy.py): Attribute, Sample, SampleSet and info_function.        *)
(*                                                                         *)
(* Python list objects live in a heap (list identity -> contents) so that  *)
(* aliasing between SampleSet instances is visible.  A float produced by   *)
(* the entropy formulas is kept as the exact sequence of fractions v/c it  *)
(* was summed from: a fraction is the pair <<v, c>>, and the number        *)
(* [base, parts] stands for                                                *)
(*    -SUM_{f in base} f*log2(f)  -  SUM_{p in parts} p.w * (-SUM_{f in    *)
(*    p.e} f*log2(f)).                                                     *)
(* Exceptions are outcomes whose kind is the Python exception class.       *)
(***************************************************************************)
EXTENDS Integers, Sequences, FiniteSets, TLC

VARIABLES heap, sets, result

vars == <<heap, sets, result>>

\* ------------------------------------------------------------------ bounds
\* Spec: the most samples held by all list objects together.
MaxSamples == 2
\* SpecCalc: the longest sample list a SampleSet is constructed with.
MaxLen == 3

\* ------------------------------------------------------- data constructors
Attribute(name, values) == [name |-> name, values |-> values]

Sample(res, values) == [result |-> res, values |-> values]

outlook == Attribute("outlook", <<"sunny", "rain">>)

wind == Attribute("wind", <<"weak", "strong">>)

Schema == <<outlook, wind>>

ClassChoices == {<<"yes", "no">>, <<"yes", "no", "maybe">>}

\* The SampleSet objects of the model, and the list objects: the one list
\* built when `def __init__(..., samples=list())` is evaluated, and the list
\* a caller passes explicitly to each constructor call.
Sets == {"A", "B"}

DefaultList == "default"

ListIds == {DefaultList} \cup Sets

\* add_sample inputs of Spec: two well-formed samples and a short one.
SampleInputs ==
    { Sample("yes", <<"sunny", "weak">>),
      Sample("no", <<"sunny", "strong">>),
      Sample("yes", <<"sunny">>) }

\* Samples a list passed to the constructor is drawn from in SpecCalc: five
\* well-formed ones, one whose label is declared only by the three-class
\* choice, one with too few values and one with an undeclared value.
SampleUniverse ==
    { Sample("yes", <<"sunny", "weak">>),
      Sample("no", <<"sunny", "weak">>),
      Sample("yes", <<"sunny", "strong">>),
      Sample("no", <<"rain", "weak">>),
      Sample("yes", <<"rain", "strong">>),
      Sample("maybe", <<"sunny", "weak">>),
      Sample("yes", <<"sunny">>),
      Sample("yes", <<"sunny", "bogus">>) }

Names == {"outlook", "wind", "nonexistent"}

Values == {"sunny", "rain", "weak"}

ByName(name) == [byName |-> TRUE, name |-> name, index |-> 0]

ByIndex(i) == [byName |-> FALSE, name |-> "", index |-> i]

AttrArgs == {ByName(n) : n \in Names} \cup {ByIndex(i) : i \in 0..(Len(Schema) - 1)}

\* ---------------------------------------------------------------- outcomes
NoNumber == [base |-> <<>>, parts |-> <<>>]

None == [kind |-> "none", key |-> "", idx |-> 0, num |-> NoNumber]

Raise(kind, key) == [kind |-> kind, key |-> key, idx |-> 0, num |-> NoNumber]

ReturnIndex(i) == [kind |-> "index", key |-> "", idx |-> i, num |-> NoNumber]

ReturnNumber(n) == [kind |-> "number", key |-> "", idx |-> 0, num |-> n]

IsError(out) == out.kind \notin {"none", "index", "number"}

\* ----------------------------------------------------------------- helpers
Range(s) == {s[i] : i \in 1..Len(s)}

RECURSIVE SumSeq(_)
SumSeq(s) == IF s = <<>> THEN 0 ELSE Head(s) + SumSeq(Tail(s))

\* dict.fromkeys(keys, value)
Fromkeys(keys, value) == [k \in Range(keys) |-> value]

\* `if frac != 0`, frac = v / c with c > 0
NonZero_always(frac) == TRUE

NonZero(frac) == frac[1] # 0

\* frac * log2(frac) for every fraction the guard lets through; log2(0)
\* raises ValueError("math domain error").
Log2Sum(fracs) ==
    LET used == SelectSeq(fracs, NonZero)
    IN  IF \E i \in 1..Len(used) : used[i][1] = 0
        THEN Raise("ValueError", "")
        ELSE ReturnNumber([base |-> used, parts |-> <<>>])

\* info_function(values)
info_function(values) ==
    LET total == SumSeq(values)
    IN  IF Len(values) > 0 /\ total = 0
        THEN Raise("ZeroDivisionError", "")
        ELSE Log2Sum([i \in 1..Len(values) |-> <<values[i], total>>])

\* --------------------------------------------------------------- SampleSet
\* SampleSet.__init__: the fields of a constructed object.  `samples` holds
\* the identity of a list object, not its contents.
SampleSet(attributes, classes, samples) ==
    [live |-> TRUE, attributes |-> attributes, classes |-> classes, samples |-> samples]

Unbuilt == [live |-> FALSE, attributes |-> <<>>, classes |-> <<>>, samples |-> "none"]

\* index_of_attribute: zero-based position of the first attribute so named
index_of_attribute(ss, attribute) ==
    LET hits == {i \in 1..Len(ss.attributes) : ss.attributes[i].name = attribute}
    IN  IF hits = {}
        THEN Raise("Exception", attribute)
        ELSE ReturnIndex((CHOOSE i \in hits : \A j \in hits : i <= j) - 1)

\* entropy, first loop: s[x.result] += 1 over samples[k..]
RECURSIVE CountClasses(_, _, _)
CountClasses(acc, samples, k) ==
    IF k > Len(samples) THEN acc
    ELSE LET x == samples[k]
         IN  IF x.result \notin DOMAIN acc.s
             THEN [acc EXCEPT !.err = Raise("KeyError", x.result)]
             ELSE CountClasses([acc EXCEPT !.s[x.result] = @ + 1], samples, k + 1)

\* SampleSet.entropy over the list contents `samples`
entropy(ss, samples) ==
    LET t == CountClasses([err |-> None, s |-> Fromkeys(ss.classes, 0)], samples, 1)
        c == Len(samples)
    IN  IF IsError(t.err) THEN t.err
        ELSE IF Len(ss.classes) > 0 /\ c = 0 THEN Raise("ZeroDivisionError", "")
        ELSE Log2Sum([i \in 1..Len(ss.classes) |-> <<t.s[ss.classes[i]], c>>])

\* attribute_entropy, first loop: count the samples whose value at
\* attr_index is `value`, by class
RECURSIVE CountMatching(_, _, _, _, _)
CountMatching(acc, samples, k, attr_index, value) ==
    IF k > Len(samples) THEN acc
    ELSE LET x == samples[k]
         IN  IF attr_index >= Len(x.values)
             THEN [acc EXCEPT !.err = Raise("IndexError", "")]
             ELSE IF x.values[attr_index + 1] # value
             THEN CountMatching(acc, samples, k + 1, attr_index, value)
             ELSE IF x.result \notin DOMAIN acc.s
             THEN [acc EXCEPT !.err = Raise("KeyError", x.result), !.c = @ + 1]
             ELSE CountMatching([acc EXCEPT !.c = @ + 1, !.s[x.result] = @ + 1],
                                samples, k + 1, attr_index, value)

\* SampleSet.attribute_entropy; attr is a name (resolved first) or an index
attribute_entropy(ss, samples, attr, value) ==
    LET r == IF attr.byName THEN index_of_attribute(ss, attr.name)
             ELSE ReturnIndex(attr.index)
        t == CountMatching([err |-> None, c |-> 0, s |-> Fromkeys(ss.classes, 0)],
                           samples, 1, r.idx, value)
    IN  IF IsError(r) THEN r
        ELSE IF IsError(t.err) THEN t.err
        ELSE IF Len(ss.classes) > 0 /\ t.c = 0 THEN Raise("ZeroDivisionError", "")
        ELSE Log2Sum([i \in 1..Len(ss.classes) |-> <<t.s[ss.classes[i]], t.c>>])

\* gain, counting loop: s[x.values[i]] += 1 over samples[k..]
RECURSIVE CountValues(_, _, _, _)
CountValues(acc, samples, k, i) ==
    IF k > Len(samples) THEN acc
    ELSE LET x == samples[k]
         IN  IF i >= Len(x.values)
             THEN [acc EXCEPT !.err = Raise("IndexError", "")]
             ELSE IF x.values[i + 1] \notin DOMAIN acc.s
             THEN [acc EXCEPT !.err = Raise("KeyError", x.values[i + 1])]
             ELSE CountValues([acc EXCEPT !.s[x.values[i + 1]] = @ + 1], samples, k + 1, i)

\* SampleSet.gain: entropy() first, then the lookup, then the count, then
\* for every declared value frac = v / c and attribute_entropy(i, k)
gain(ss, samples, attribute) ==
    LET e == entropy(ss, samples)
        r == index_of_attribute(ss, attribute)
        i == r.idx
        keys == ss.attributes[i + 1].values
        t == CountValues([err |-> None, s |-> Fromkeys(keys, 0)], samples, 1, i)
        c == Len(samples)
        sub == [k \in 1..Len(keys) |->
                  IF c = 0 THEN Raise("ZeroDivisionError", "")
                  ELSE attribute_entropy(ss, samples, ByIndex(i), keys[k])]
        bad == {k \in 1..Len(keys) : IsError(sub[k])}
    IN  IF IsError(e) THEN e
        ELSE IF IsError(r) THEN r
        ELSE IF IsError(t.err) THEN t.err
        ELSE IF bad # {} THEN sub[CHOOSE k \in bad : \A j \in bad : k <= j]
        ELSE ReturnNumber([base |-> e.num.base,
                           parts |-> [k \in 1..Len(keys) |->
                                        [w |-> <<t.s[keys[k]], c>>, e |-> sub[k].num.base]]])

\* attribute_gain, `dict.fromkeys(values, [])`: the identity of the one list
\* object every key of cats is bound to, a list new to this call
BucketList_selfsamples(ss) == ss.samples

BucketList(ss) == "cats"

\* attribute_gain, bucketing loop: cats[s.values[attr2_index]].append(s)
\* over samples[k..]; cats maps each declared value to a list identity
RECURSIVE Bucket(_, _, _, _, _)
Bucket(acc, cats, samples, k, attr2_index) ==
    IF k > Len(samples) THEN acc
    ELSE LET s == samples[k]
         IN  IF attr2_index >= Len(s.values)
             THEN [acc EXCEPT !.err = Raise("IndexError", "")]
             ELSE IF s.values[attr2_index + 1] \notin DOMAIN cats
             THEN [acc EXCEPT !.err = Raise("KeyError", s.values[attr2_index + 1])]
             ELSE Bucket([acc EXCEPT !.h[cats[s.values[attr2_index + 1]]] = Append(@, s)],
                         cats, samples, k + 1, attr2_index)

\* attribute_gain, inner tabulation for one key k: over the list l bound to
\* k, count by class the samples whose attr2 value is k
RECURSIVE CountCategory_nofilter(_, _, _, _, _)
CountCategory_nofilter(acc, l, j, attr2_index, k) ==
    IF j > Len(l) THEN acc
    ELSE LET sample == l[j]
         IN  IF sample.result \notin DOMAIN acc.s
             THEN [acc EXCEPT !.err = Raise("KeyError", sample.result)]
             ELSE CountCategory_nofilter([acc EXCEPT !.s[sample.result] = @ + 1],
                                         l, j + 1, attr2_index, k)

RECURSIVE CountCategory(_, _, _, _, _)
CountCategory(acc, l, j, attr2_index, k) ==
    IF j > Len(l) THEN acc
    ELSE LET sample == l[j]
         IN  IF attr2_index >= Len(sample.values)
             THEN [acc EXCEPT !.err = Raise("IndexError", "")]
             ELSE IF sample.values[attr2_index + 1] # k
             THEN CountCategory(acc, l, j + 1, attr2_index, k)
             ELSE IF sample.result \notin DOMAIN acc.s
             THEN [acc EXCEPT !.err = Raise("KeyError", sample.result)]
             ELSE CountCategory([acc EXCEPT !.s[sample.result] = @ + 1],
                                l, j + 1, attr2_index, k)

\* SampleSet.attribute_gain run on heap h: the outcome, whether the table
\* `results` was completed, that table, and the heap the call leaves
attribute_gain(h, ss, attr1, value, attr2) ==
    LET r1 == index_of_attribute(ss, attr1)
        r2 == index_of_attribute(ss, attr2)
        attr1_index == r1.idx
        attr2_index == r2.idx
        self_samples == h[ss.samples]
        base == attribute_entropy(ss, self_samples, ByIndex(attr1_index), value)
        samples == SelectSeq(self_samples, LAMBDA x : x.values[attr1_index + 1] = value)
        keys == ss.attributes[attr2_index + 1].values
        h0 == [id \in DOMAIN h \cup {BucketList(ss)} |-> IF id \in DOMAIN h THEN h[id] ELSE <<>>]
        cats == Fromkeys(keys, BucketList(ss))
        b == Bucket([err |-> None, h |-> h0], cats, samples, 1, attr2_index)
        left == [id \in DOMAIN h |-> b.h[id]]
        tab == [k \in 1..Len(keys) |->
                  CountCategory([err |-> None, s |-> Fromkeys(ss.classes, 0)],
                                b.h[cats[keys[k]]], 1, attr2_index, keys[k])]
        badtab == {k \in 1..Len(keys) : IsError(tab[k].err)}
        results == [v \in Range(keys) |->
                      tab[CHOOSE k \in 1..Len(keys) : keys[k] = v].s]
        n == Len(samples)
        l(k) == [i \in 1..Len(ss.classes) |-> results[keys[k]][ss.classes[i]]]
        info == [k \in 1..Len(keys) |->
                   IF n = 0 THEN Raise("ZeroDivisionError", "") ELSE info_function(l(k))]
        badinfo == {k \in 1..Len(keys) : IsError(info[k])}
        fail(out, hp) == [out |-> out, built |-> FALSE, results |-> <<>>, heap |-> hp]
    IN  IF IsError(r1) THEN fail(r1, h)
        ELSE IF IsError(r2) THEN fail(r2, h)
        ELSE IF IsError(base) THEN fail(base, h)
        ELSE IF IsError(b.err) THEN fail(b.err, left)
        ELSE IF badtab # {}
        THEN fail(tab[CHOOSE k \in badtab : \A j \in badtab : k <= j].err, left)
        ELSE [out |-> IF badinfo # {}
                      THEN info[CHOOSE k \in badinfo : \A j \in badinfo : k <= j]
                      ELSE ReturnNumber(
                             [base |-> base.num.base,
                              parts |-> [k \in 1..Len(keys) |->
                                           [w |-> <<SumSeq(l(k)), n>>,
                                            e |-> info[k].num.base]]]),
              built |-> TRUE, results |-> results, heap |-> left]

\* ------------------------------------------------------------------- state
\* What the caller holds after a call: the operation, its receiver and
\* arguments, its outcome, and for attribute_gain the table it tabulated.
Call(op, inst, attr, value, attr2, out, built, results) ==
    [op |-> op, inst |-> inst, attr |-> attr, value |-> value, attr2 |-> attr2,
     out |-> out, built |-> built, results |-> results]

Idle == Call("none", "", ByName(""), "", "", None, FALSE, <<>>)

Done(op, inst) == Call(op, inst, ByName(""), "", "", None, FALSE, <<>>)

SamplesOf(i) == IF sets[i].live THEN heap[sets[i].samples] ELSE <<>>

RECURSIVE TotalSamples(_, _)
TotalSamples(h, ids) ==
    IF ids = {} THEN 0
    ELSE LET id == CHOOSE x \in ids : TRUE
         IN  Len(h[id]) + TotalSamples(h, ids \ {id})

RECURSIVE SeqsUpTo(_, _)
SeqsUpTo(S, n) ==
    IF n = 0 THEN {<<>>}
    ELSE LET shorter == SeqsUpTo(S, n - 1)
         IN  shorter \cup {Append(q, x) : q \in shorter, x \in S}

Init ==
    /\ heap = [id \in ListIds |-> <<>>]
    /\ sets = [i \in Sets |-> Unbuilt]
    /\ result = Idle

\* SampleSet(attributes, classes): samples is the default argument's list
Construct(i, classes) ==
    /\ result = Idle
    /\ ~sets[i].live
    /\ sets' = [sets EXCEPT ![i] = SampleSet(Schema, classes, DefaultList)]
    /\ result' = Done("init", i)
    /\ UNCHANGED heap

\* SampleSet(attributes, classes, samples): samples is the caller's list
ConstructWith(i, classes, samples) ==
    /\ result = Idle
    /\ ~sets[i].live
    /\ TotalSamples(heap, ListIds) + Len(samples) <= MaxSamples
    /\ heap' = [heap EXCEPT ![i] = samples]
    /\ sets' = [sets EXCEPT ![i] = SampleSet(Schema, classes, i)]
    /\ result' = Done("init", i)

\* add_sample: self.samples.append(sample)
AddSample(i, sample) ==
    /\ result = Idle
    /\ sets[i].live
    /\ TotalSamples(heap, ListIds) < MaxSamples
    /\ heap' = [heap EXCEPT ![sets[i].samples] = Append(@, sample)]
    /\ result' = Done("add_sample", i)
    /\ UNCHANGED sets

Entropy(i) ==
    /\ result = Idle
    /\ sets[i].live
    /\ result' = Call("entropy", i, ByName(""), "", "",
                      entropy(sets[i], heap[sets[i].samples]), FALSE, <<>>)
    /\ UNCHANGED <<heap, sets>>

AttributeEntropy(i, attr, value) ==
    /\ result = Idle
    /\ sets[i].live
    /\ result' = Call("attribute_entropy", i, attr, value, "",
                      attribute_entropy(sets[i], heap[sets[i].samples], attr, value),
                      FALSE, <<>>)
    /\ UNCHANGED <<heap, sets>>

Gain(i, attribute) ==
    /\ result = Idle
    /\ sets[i].live
    /\ result' = Call("gain", i, ByName(attribute), "", "",
                      gain(sets[i], heap[sets[i].samples], attribute), FALSE, <<>>)
    /\ UNCHANGED <<heap, sets>>

AttributeGain(i, attr1, value, attr2) ==
    /\ result = Idle
    /\ sets[i].live
    /\ LET run == attribute_gain(heap, sets[i], attr1, value, attr2)
       IN  /\ result' = Call("attribute_gain", i, ByName(attr1), value, attr2,
                             run.out, run.built, run.results)
           /\ heap' = run.heap
    /\ UNCHANGED sets

IndexOfAttribute(i, attribute) ==
    /\ result = Idle
    /\ sets[i].live
    /\ result' = Call("index_of_attribute", i, ByName(attribute), "", "",
                      index_of_attribute(sets[i], attribute), FALSE, <<>>)
    /\ UNCHANGED <<heap, sets>>

\* the caller is done with what the last call gave back
Discard ==
    /\ result # Idle
    /\ result' = Idle
    /\ UNCHANGED <<heap, sets>>

DoConstruct == \E i \in Sets, classes \in ClassChoices : Construct(i, classes)

DoConstructWith ==
    \E i \in Sets, classes \in ClassChoices, samples \in SeqsUpTo(SampleInputs, 1) :
        ConstructWith(i, classes, samples)

DoAddSample == \E i \in Sets, sample \in SampleInputs : AddSample(i, sample)

DoEntropy == \E i \in Sets : Entropy(i)

DoAttributeEntropy == \E i \in Sets, attr \in AttrArgs, value \in Values : AttributeEntropy(i, attr, value)

DoGain == \E i \in Sets, attribute \in Names : Gain(i, attribute)

DoAttributeGain ==
    \E i \in Sets, attr1 \in Names, value \in Values, attr2 \in Names :
        AttributeGain(i, attr1, value, attr2)

DoIndexOfAttribute == \E i \in Sets, attribute \in Names : IndexOfAttribute(i, attribute)

Queries ==
    \/ DoEntropy
    \/ DoAttributeEntropy
    \/ DoGain
    \/ DoAttributeGain
    \/ DoIndexOfAttribute

Next ==
    \/ DoConstruct
    \/ DoConstructWith
    \/ DoAddSample
    \/ Queries
    \/ Discard

Spec == Init /\ [][Next]_vars

\* One SampleSet built from a caller's list of up to MaxLen samples; only
\* the computations run.
InitCalc ==
    \E classes \in ClassChoices, samples \in SeqsUpTo(SampleUniverse, MaxLen) :
        /\ heap = [id \in ListIds |-> IF id = "A" THEN samples ELSE <<>>]
        /\ sets = [i \in Sets |-> IF i = "A" THEN SampleSet(Schema, classes, "A") ELSE Unbuilt]
        /\ result = Idle

NextCalc == Queries \/ Discard

SpecCalc == InitCalc /\ [][NextCalc]_vars

\* ------------------------------------------------------- claim vocabulary
\* A sample fits the schema: one declared value per attribute, declared label.
Conformant(ss, x) ==
    /\ Len(x.values) = Len(ss.attributes)
    /\ \A i \in 1..Len(x.values) : x.values[i] \in Range(ss.attributes[i].values)
    /\ x.result \in Range(ss.classes)

AllConformant(i) == \A k \in 1..Len(SamplesOf(i)) : Conformant(sets[i], SamplesOf(i)[k])

Declared(ss, name) == \E i \in 1..Len(ss.attributes) : ss.attributes[i].name = name

\* the sample's value at a zero-based position, if it has one
ValueAt(x, idx) == IF idx < Len(x.values) THEN x.values[idx + 1] ELSE "(absent)"

\* the positions of the samples of SampleSet i whose value at idx is value
Matching(i, idx, value) == {k \in 1..Len(SamplesOf(i)) : ValueAt(SamplesOf(i)[k], idx) = value}

PositionOf(ss, name) == index_of_attribute(ss, name).idx

Reorderings(s) == {[k \in 1..Len(s) |-> s[f[k]]] : f \in Permutations(1..Len(s))}

QueryOps == {"entropy", "attribute_entropy", "gain", "attribute_gain", "index_of_attribute"}

\* -SUM f*log2(f) is 0 exactly when every summed fraction is 1 (log2(1) = 0)
IsZeroEntropy(num) ==
    /\ num.parts = <<>>
    /\ \A i \in 1..Len(num.base) : num.base[i][1] = num.base[i][2]

\* ------------------------------------------------------------------ claims
\* C1: add_sample on one SampleSet built without a samples argument never
\* changes the samples of another SampleSet built without one.
C1_Isolation ==
    [][\A i \in Sets, j \in Sets :
          ( /\ i # j
            /\ sets[i].live /\ sets[i].samples = DefaultList
            /\ sets[j].live /\ sets[j].samples = DefaultList
            /\ result = Idle /\ result'.op = "add_sample" /\ result'.inst = i )
          => heap'[sets'[j].samples] = heap[sets[j].samples]]_vars

\* C2: on a non-empty, schema-conformant SampleSet gain(A) of a declared
\* attribute A returns a number, also when a declared value of A is observed
\* in no sample.
C2_GainUnobservedValue ==
    ( /\ result.op = "gain"
      /\ Declared(sets[result.inst], result.attr.name)
      /\ Len(SamplesOf(result.inst)) > 0
      /\ AllConformant(result.inst) )
    => result.out.kind = "number"

\* C3: attribute_gain(attr1, value, attr2) on a schema-conformant SampleSet
\* with some sample having attr1 = value returns a number, also when a
\* declared value of the other attribute attr2 has an empty partition.
C3_AttributeGainEmptyPartition ==
    ( /\ result.op = "attribute_gain"
      /\ Declared(sets[result.inst], result.attr.name)
      /\ Declared(sets[result.inst], result.attr2)
      /\ result.attr.name # result.attr2
      /\ AllConformant(result.inst)
      /\ Matching(result.inst, PositionOf(sets[result.inst], result.attr.name),
                  result.value) # {} )
    => result.out.kind = "number"

\* C4: every computation given an undeclared attribute name ends in the
\* attribute-not-found error carrying that name, whatever the samples are
\* (none included).
C4_AttributeNotFound ==
    LET ss == sets[result.inst]
        named(name) == result.out = Raise("Exception", name)
    IN  /\ ( /\ result.op \in {"gain", "index_of_attribute"}
             /\ AllConformant(result.inst)
             /\ ~Declared(ss, result.attr.name) )
           => named(result.attr.name)
        /\ ( /\ result.op = "attribute_entropy"
             /\ AllConformant(result.inst)
             /\ result.attr.byName
             /\ ~Declared(ss, result.attr.name) )
           => named(result.attr.name)
        /\ ( /\ result.op = "attribute_gain"
             /\ AllConformant(result.inst)
             /\ ~Declared(ss, result.attr.name) )
           => named(result.attr.name)
        /\ ( /\ result.op = "attribute_gain"
             /\ AllConformant(result.inst)
             /\ Declared(ss, result.attr.name)
             /\ ~Declared(ss, result.attr2) )
           => named(result.attr2)

\* C5: every sample held by a SampleSet is schema-conformant.
C5_SchemaInvariant == \A i \in Sets : sets[i].live => AllConformant(i)

\* C6: entropy() over no samples, attribute_entropy over no matching sample
\* and attribute_gain over no matching sample end in an error of their own:
\* not a number, not the attribute-not-found error, not a division by zero.
C6_EmptyPopulation ==
    LET ss == sets[result.inst]
        i == result.inst
        own == IsError(result.out) /\ result.out.kind \notin {"Exception", "ZeroDivisionError"}
    IN  /\ (result.op = "entropy" /\ Len(SamplesOf(i)) = 0) => own
        /\ ( /\ result.op = "attribute_entropy"
             /\ AllConformant(i)
             /\ result.attr.byName => Declared(ss, result.attr.name)
             /\ Matching(i, IF result.attr.byName THEN PositionOf(ss, result.attr.name)
                            ELSE result.attr.index, result.value) = {} )
           => own
        /\ ( /\ result.op = "attribute_gain"
             /\ AllConformant(i)
             /\ Declared(ss, result.attr.name)
             /\ Declared(ss, result.attr2)
             /\ Matching(i, PositionOf(ss, result.attr.name), result.value) = {} )
           => own

\* C7: entropy() and gain(A), A declared, have the same outcome on every
\* SampleSet holding the same samples in another order.
C7_OrderIndependence ==
    LET ss == sets[result.inst]
        samples == SamplesOf(result.inst)
    IN  /\ result.op = "entropy"
           => \A p \in Reorderings(samples) : entropy(ss, p) = result.out
        /\ (result.op = "gain" /\ Declared(ss, result.attr.name))
           => \A p \in Reorderings(samples) : gain(ss, p, result.attr.name) = result.out

\* C7 restricted to schema-conformant samples: then the order is irrelevant.
C7_OrderIndependenceConformant == AllConformant("A") => C7_OrderIndependence

\* C8: a query leaves every list object and every SampleSet field as it was,
\* and the samples of a SampleSet change only by an add_sample that appends
\* one element at the end.
C8_ReadOnly ==
    [][ /\ (result = Idle /\ result'.op \in QueryOps) => (heap' = heap /\ sets' = sets)
        /\ \A i \in Sets :
             (sets[i].live /\ heap'[sets'[i].samples] # heap[sets[i].samples])
             => /\ result'.op = "add_sample"
                /\ sets'[i] = sets[i]
                /\ Len(heap'[sets[i].samples]) = Len(heap[sets[i].samples]) + 1
                /\ SubSeq(heap'[sets[i].samples], 1, Len(heap[sets[i].samples]))
                     = heap[sets[i].samples] ]_vars

\* C8 witness: attribute_gain has bucketed two matching samples and returned
\* a number.
C8_Witness ==
    /\ result.op = "attribute_gain"
    /\ result.out.kind = "number"
    /\ Len(SamplesOf(result.inst)) >= 2

\* C9: entropy() of a non-empty SampleSet whose samples all carry one and
\* the same declared class label is 0, however many classes are declared.
C9_DegenerateEntropy ==
    LET ss == sets[result.inst]
        samples == SamplesOf(result.inst)
    IN  ( /\ result.op = "entropy"
          /\ Len(samples) > 0
          /\ \E L \in Range(ss.classes) : \A k \in 1..Len(samples) : samples[k].result = L )
        => (result.out.kind = "number" /\ IsZeroEntropy(result.out.num))

\* C9 witness: entropy() ran on two samples of one label with three classes
\* declared, two of them counted zero times.
C9_Witness ==
    /\ result.op = "entropy"
    /\ Len(sets[result.inst].classes) = 3
    /\ Len(SamplesOf(result.inst)) >= 2
    /\ \A k \in 1..Len(SamplesOf(result.inst)) : SamplesOf(result.inst)[k].result = "no"
    /\ result.out.kind = "number"

\* C10: the table attribute_gain tabulates is exact: for every declared
\* value v2 of attr2 and class L its count is the number of samples with
\* attr1 = value, attr2 = v2 and result = L, and the partition sizes sum to
\* the number of samples with attr1 = value.
C10_TabulationExact ==
    LET ss == sets[result.inst]
        samples == SamplesOf(result.inst)
        idx1 == PositionOf(ss, result.attr.name)
        idx2 == PositionOf(ss, result.attr2)
        keys == ss.attributes[idx2 + 1].values
        size(k) == SumSeq([c \in 1..Len(ss.classes) |-> result.results[keys[k]][ss.classes[c]]])
    IN  (result.op = "attribute_gain" /\ result.built)
        => /\ DOMAIN result.results = Range(keys)
           /\ \A v2 \in Range(keys) : \A L \in Range(ss.classes) :
                result.results[v2][L] =
                  Cardinality({k \in Matching(result.inst, idx1, result.value) :
                                 /\ ValueAt(samples[k], idx2) = v2
                                 /\ samples[k].result = L})
           /\ SumSeq([k \in 1..Len(keys) |-> size(k)])
                = Cardinality(Matching(result.inst, idx1, result.value))

\* C10 witness: the table was built from matching samples that fall into
\* two different partitions of attr2.
C10_Witness ==
    /\ result.op = "attribute_gain"
    /\ result.built
    /\ result.attr.name # result.attr2
    /\ \E v \in DOMAIN result.results, w \in DOMAIN result.results :
         /\ v # w
         /\ \E L \in DOMAIN result.results[v] : result.results[v][L] > 0
         /\ \E L \in DOMAIN result.results[w] : result.results[w][L] > 0

====
